---- MODULE Spec2Model ----
(***************************************************************************)
(* Model of examples/client.py of oracle-alpha:                            *)
(*   - OracleWebSocket: the reconnecting stream subscriber (connect /      *)
(*     disconnect), one asyncio task running connect() plus the caller     *)
(*     and the peer as environment;                                        *)
(*   - OracleClient: the REST request client (_request, _post and the      *)
(*     twelve operations built on them).                                   *)
(***************************************************************************)
EXTENDS Integers, Sequences, FiniteSets, TLC

(* ---- bounds of the model ---- *)
MaxMsgs == 3
MaxWire == 2
MaxLimit == 2
MaxScore == 2

(* ---- JSON values, tagged by their Python type after json.loads ---- *)
JDict(r) == [t |-> "dict", v |-> r]
JList(s) == [t |-> "list", v |-> s]
JStr(s)  == [t |-> "str", v |-> s]
JNull    == [t |-> "null"]

EmptyDict == [k \in {} |-> JNull]
PayloadA == JDict([symbol |-> JStr("BTC"), score |-> JStr("91")])
PayloadB == JDict([symbol |-> JStr("ETH"), score |-> JStr("75")])

(* A frame on the wire: text that is a JSON object, a JSON value that is  *)
(* not an object, or text that is not JSON at all.                         *)
Frame(kind, val) == [json |-> kind, val |-> val]

SigA    == Frame("ok", JDict([type |-> JStr("signal"), data |-> PayloadA]))
SigBare == Frame("ok", JDict([type |-> JStr("signal")]))
Hist2   == Frame("ok", JDict([type |-> JStr("history"), data |-> JList(<<PayloadA, PayloadB>>)]))
HistNull == Frame("ok", JDict([type |-> JStr("history"), data |-> JNull]))
Ping    == Frame("ok", JDict([type |-> JStr("ping")]))
NoType  == Frame("ok", JDict([data |-> PayloadA]))
NotObject == Frame("ok", JList(<<PayloadA>>))
Garbage == Frame("invalid", JNull)

Frames == {SigA, SigBare, Hist2, HistNull, Ping, NoType, NotObject, Garbage}

(* ---- the statements of the listen loop ---- *)

\* json.loads(message): the decoded value, or a raise (JSONDecodeError)
JsonLoads(m) ==
    IF m.json = "ok" THEN [raised |-> FALSE, value |-> m.val]
                     ELSE [raised |-> TRUE, value |-> JNull]

\* d.get(key, default) of a dict
DictGet(d, key, default) ==
    IF key \in DOMAIN d.v THEN d.v[key] ELSE default

\* what one pass through the loop body does: whether it raised, whether
\* on_signal was invoked, and with which argument
Quiet == [raised |-> FALSE, called |-> FALSE, arg |-> JNull]
Fail  == [raised |-> TRUE, called |-> FALSE, arg |-> JNull]

\* self.on_signal(data.get('data', {})), the handler raising or not
OnSignal(data, handlerRaises) ==
    [raised |-> handlerRaises, called |-> TRUE,
     arg |-> DictGet(data, "data", JDict(EmptyDict))]

\* a slip that would hand the history payload to the handler as well
OnHistoryCallsHandler(data) ==
    [raised |-> FALSE, called |-> TRUE,
     arg |-> DictGet(data, "data", JList(<<>>))]

\* print(f"Received {len(data.get('data', []))} historical signals"):
\* len() raises TypeError on a payload without a length (None)
OnHistory(data) ==
    IF DictGet(data, "data", JList(<<>>)).t \in {"list", "dict", "str"}
    THEN Quiet ELSE Fail

\* a slip that would reject a type it does not know
OnOtherRaises == Fail

\* neither branch of the if/elif is taken
OnOther == Quiet

\* The body of `async for message in ws` for one message.
Dispatch(m, handlerRaises) ==
    LET dec == JsonLoads(m)
    IN  IF dec.raised THEN Fail
        ELSE IF dec.value.t # "dict" THEN Fail          \* no .get: AttributeError
        ELSE LET data == dec.value
                 type == DictGet(data, "type", JNull)
             IN  IF type = JStr("signal") THEN OnSignal(data, handlerRaises)
                 ELSE IF type = JStr("history") THEN OnHistory(data)
                 ELSE OnOther

\* the retry delays of the two except clauses
ClosedDelay == 2
ErrorDelay == 5

\* the two delays taken for each other
ExceptDelaySwapped(exc) ==
    IF exc = "ConnectionClosed" THEN ErrorDelay ELSE ClosedDelay

ExceptDelay(exc) ==
    IF exc = "ConnectionClosed" THEN ClosedDelay ELSE ErrorDelay

\* a loop that never looks at the flag
WhileTrue(r) == TRUE

\* a loop whose test is inverted
WhileNotRunning(r) == ~r

\* `while self.running`
WhileCondition(r) == r


(* ------------------------------------------------------------------ *)
(* OracleClient                                                        *)
(* ------------------------------------------------------------------ *)
JInt(n) == [t |-> "int", v |-> n]

\* Python truth value of None, a str or an int
Truthy(x) ==
    CASE x.t = "null" -> FALSE
      [] x.t = "str"  -> x.v # ""
      [] x.t = "int"  -> x.v # 0
      [] OTHER        -> TRUE

BaseUrl == "http://localhost:3900"

ApiKeys == {JNull, JStr(""), JStr("secret")}
Scores == (0 .. MaxScore) \cup {70}
Limits == (1 .. MaxLimit) \cup {5, 20}
MinScores == {JNull} \cup {JInt(n) : n \in Scores}

\* what urlopen can meet: a response with a status, or no response at all
Resp(status, reason, body) == [status |-> status, reason |-> reason, body |-> body]
GoodBody == Frame("ok", JDict([status |-> JStr("ok")]))
Responses ==
    { Resp(200, "OK", GoodBody),
      Resp(200, "OK", Garbage),
      Resp(401, "Unauthorized", Garbage),
      Resp(404, "Not Found", Garbage),
      Resp(500, "Internal Server Error", Garbage),
      Resp(0, "timed out", Garbage) }

Returned(v) == [kind |-> "return", exc |-> "", msg |-> "", value |-> v]
Raised(exc, msg) == [kind |-> "raise", exc |-> exc, msg |-> msg, value |-> JNull]
NoOutcome == [kind |-> "none", exc |-> "", msg |-> "", value |-> JNull]

HttpRequest(method, url, headers, body) ==
    [method |-> method, url |-> url, headers |-> headers, body |-> body]
NoRequest == HttpRequest("none", "", [h \in {} |-> ""], "")

\* urlopen(req, timeout=10) followed by json.loads(response.read().decode()):
\* the decoded body of a 2xx response, HTTPError for another status,
\* URLError when there is no response.
UrlOpen(resp) ==
    IF resp.status = 0 THEN Raised("URLError", resp.reason)
    ELSE IF resp.status \in 200 .. 299
    THEN LET dec == JsonLoads(resp.body)
         IN  IF dec.raised THEN Raised("JSONDecodeError", "")
                           ELSE Returned(dec.value)
    ELSE Raised("HTTPError",
                "HTTP Error " \o ToString(resp.status) \o ": " \o resp.reason)

\* headers built by _request
RequestHeaders(key) ==
    IF Truthy(key)
    THEN ("Content-Type" :> "application/json")
             @@ ("Authorization" :> ("Bearer " \o key.v))
    ELSE ("Content-Type" :> "application/json")

\* headers built by _post
PostHeaders(key) == ("Content-Type" :> "application/json")

\* OracleClient._request: the request issued and what the caller gets
Request(key, endpoint, resp) ==
    LET req == HttpRequest("GET", BaseUrl \o endpoint, RequestHeaders(key), "")
        out == UrlOpen(resp)
    IN  [request |-> req,
         outcome |-> IF out.exc = "HTTPError"
                     THEN Raised("Exception",
                                 "API error: " \o ToString(resp.status)
                                     \o " " \o resp.reason)
                     ELSE out,
         calls |-> 1]

\* OracleClient._post
Post(key, endpoint, body, resp) ==
    LET req == HttpRequest("POST", BaseUrl \o endpoint, PostHeaders(key), body)
    IN  [request |-> req, outcome |-> UrlOpen(resp), calls |-> 1]

\* '&'.join(params)
RECURSIVE Join(_, _)
Join(sep, params) ==
    IF params = <<>> THEN ""
    ELSE IF Len(params) = 1 THEN params[1]
    ELSE params[1] \o sep \o Join(sep, Tail(params))

\* the query get_signals builds
SignalsQuery(min_score, limit) ==
    LET p1 == IF Truthy(min_score)
              THEN <<"minScore=" \o ToString(min_score.v)>> ELSE <<>>
        params == Append(p1, "limit=" \o ToString(limit))
    IN  IF params # <<>> THEN "?" \o Join("&", params) ELSE ""

VARIABLES
    pc,          \* where the connect() coroutine is
    running,     \* self.running
    wire,        \* frames the peer has sent on the open connection, unread
    sent,        \* number of frames the peer has sent so far
    received,    \* frames the listen loop has taken, over all connections
    handled,     \* arguments of the on_signal invocations, over all connections
    remaining,   \* time left of the asyncio.sleep in progress
    gap,         \* time elapsed since the last connection or attempt ended
    endKind,     \* how the last connection or attempt ended
    stoppedAt,   \* pc at the first disconnect() call ("none" before it)
    handledAtStop, \* Len(handled) at the first disconnect() call
    api_key,     \* OracleClient.api_key
    lastOp,      \* the last OracleClient operation called, with its arguments
    lastResp,    \* what the network answered to it
    request,     \* the HTTP request it issued
    outcome,     \* what it returned or raised
    netCalls     \* how many network calls it made

wsvars == <<pc, running, wire, sent, received, handled, remaining, gap,
            endKind, stoppedAt, handledAtStop>>

restvars == <<api_key, lastOp, lastResp, request, outcome, netCalls>>

vars == <<wsvars, restvars>>

WsInit ==
    /\ pc = "scheduled"
    /\ running = FALSE
    /\ wire = <<>>
    /\ sent = 0
    /\ received = <<>>
    /\ handled = <<>>
    /\ remaining = 0
    /\ gap = 0
    /\ endKind = "none"
    /\ stoppedAt = "none"
    /\ handledAtStop = 0

\* The loop head after a connection or attempt is over: a new attempt, or
\* connect() returns.
LoopHead(r) == IF WhileCondition(r) THEN "connecting" ELSE "returned"

\* connect() starts to run: self.running = True, then the first loop test
\* and the first websockets.connect, with no suspension point in between.
ConnectStart ==
    /\ pc = "scheduled"
    /\ running' = TRUE
    /\ pc' = LoopHead(TRUE)
    /\ UNCHANGED <<restvars, wire, sent, received, handled, remaining, gap, endKind,
                   stoppedAt, handledAtStop>>

\* disconnect(), called by the owner at any time
Disconnect ==
    /\ pc # "returned"
    /\ running' = FALSE
    /\ stoppedAt' = IF stoppedAt = "none" THEN pc ELSE stoppedAt
    /\ handledAtStop' = IF stoppedAt = "none" THEN Len(handled) ELSE handledAtStop
    /\ UNCHANGED <<restvars, pc, wire, sent, received, handled, remaining, gap, endKind>>

\* an exception reaches the except clauses: the connection is gone, sleep
Except(exc) ==
    /\ pc' = "sleeping"
    /\ remaining' = ExceptDelay(exc)
    /\ gap' = 0
    /\ endKind' = exc
    /\ wire' = <<>>

HandshakeOk ==
    /\ pc = "connecting"
    /\ pc' = "listening"
    /\ wire' = <<>>
    /\ UNCHANGED <<restvars, running, sent, received, handled, remaining, gap, endKind,
                   stoppedAt, handledAtStop>>

HandshakeFail ==
    /\ pc = "connecting"
    /\ Except("Exception")
    /\ UNCHANGED <<restvars, running, sent, received, handled, stoppedAt, handledAtStop>>

\* the peer sends a frame on the open connection
PeerSend ==
    /\ pc = "listening"
    /\ sent < MaxMsgs
    /\ Len(wire) < MaxWire
    /\ \E m \in Frames : wire' = Append(wire, m)
    /\ sent' = sent + 1
    /\ UNCHANGED <<restvars, pc, running, received, handled, remaining, gap, endKind,
                   stoppedAt, handledAtStop>>

\* one iteration of `async for message in ws`
Receive ==
    /\ pc = "listening"
    /\ wire # <<>>
    /\ \E handlerRaises \in BOOLEAN :
         LET m == Head(wire)
             d == Dispatch(m, handlerRaises)
         IN  /\ received' = Append(received, m)
             /\ handled' = IF d.called THEN Append(handled, d.arg) ELSE handled
             /\ IF d.raised
                THEN Except("Exception")
                ELSE /\ wire' = Tail(wire)
                     /\ UNCHANGED <<restvars, pc, remaining, gap, endKind>>
    /\ UNCHANGED <<restvars, running, sent, stoppedAt, handledAtStop>>

\* The peer closes with code 1000/1001 after everything it sent was read:
\* the iterator is exhausted, the loop and the `async with` end without an
\* exception, and control is back at the loop head at once.
PeerCloseOk ==
    /\ pc = "listening"
    /\ wire = <<>>
    /\ pc' = LoopHead(running)
    /\ gap' = 0
    /\ endKind' = "ClosedOK"
    /\ UNCHANGED <<restvars, running, wire, sent, received, handled, remaining,
                   stoppedAt, handledAtStop>>

\* The connection drops or closes with another code: the iterator raises
\* ConnectionClosed; what was in flight is lost.
PeerCloseError ==
    /\ pc = "listening"
    /\ Except("ConnectionClosed")
    /\ UNCHANGED <<restvars, running, sent, received, handled, stoppedAt, handledAtStop>>

\* time passes during asyncio.sleep
Tick ==
    /\ pc = "sleeping"
    /\ remaining > 0
    /\ remaining' = remaining - 1
    /\ gap' = gap + 1
    /\ UNCHANGED <<restvars, pc, running, wire, sent, received, handled, endKind,
                   stoppedAt, handledAtStop>>

\* the sleep is over: back at the loop head
Wake ==
    /\ pc = "sleeping"
    /\ remaining = 0
    /\ pc' = LoopHead(running)
    /\ UNCHANGED <<restvars, running, wire, sent, received, handled, remaining, gap,
                   endKind, stoppedAt, handledAtStop>>

WsNext ==
    \/ ConnectStart
    \/ Disconnect
    \/ HandshakeOk
    \/ HandshakeFail
    \/ PeerSend
    \/ Receive
    \/ PeerCloseOk
    \/ PeerCloseError
    \/ Tick
    \/ Wake

RestIdle ==
    /\ lastOp = [name |-> "none"]
    /\ lastResp = Resp(0, "", Garbage)
    /\ request = NoRequest
    /\ outcome = NoOutcome
    /\ netCalls = 0

Init ==
    /\ WsInit
    /\ api_key = JNull
    /\ RestIdle

Next == WsNext

Spec == Init /\ [][Next]_vars

\* asyncio.sleep ends, and the event loop resumes the coroutine
FairSpec == Spec /\ WF_vars(Tick) /\ WF_vars(Wake)

(* ---- the operations of OracleClient ---- *)

\* one call of an operation: op names it, r is what _request/_post did
Call(op, resp, r) ==
    /\ lastOp' = op
    /\ lastResp' = resp
    /\ request' = r.request
    /\ outcome' = r.outcome
    /\ netCalls' = r.calls

\* an operation that is one _request of a fixed endpoint
Get(name, endpoint) ==
    \E resp \in Responses :
        Call([name |-> name], resp, Request(api_key, endpoint, resp))

health_check ==
    /\ Get("health_check", "/health")
    /\ UNCHANGED <<api_key, wsvars>>

get_signals ==
    /\ \E min_score \in MinScores, limit \in Limits, resp \in Responses :
         Call([name |-> "get_signals", min_score |-> min_score, limit |-> limit],
              resp,
              Request(api_key, "/api/signals" \o SignalsQuery(min_score, limit), resp))
    /\ UNCHANGED <<api_key, wsvars>>

get_signal ==
    /\ \E signal_id \in {"sig-1", "sig-2"}, resp \in Responses :
         Call([name |-> "get_signal", signal_id |-> signal_id], resp,
              Request(api_key, "/api/signals/" \o signal_id, resp))
    /\ UNCHANGED <<api_key, wsvars>>

get_stats ==
    /\ Get("get_stats", "/api/stats")
    /\ UNCHANGED <<api_key, wsvars>>

get_leaderboard ==
    /\ Get("get_leaderboard", "/api/leaderboard")
    /\ UNCHANGED <<api_key, wsvars>>

get_tiers ==
    /\ Get("get_tiers", "/api/subscription/tiers")
    /\ UNCHANGED <<api_key, wsvars>>

check_subscription ==
    /\ \E wallet \in {"w-1", "w-2"}, resp \in Responses :
         Call([name |-> "check_subscription", wallet |-> wallet], resp,
              Request(api_key, "/api/subscription/" \o wallet, resp))
    /\ UNCHANGED <<api_key, wsvars>>

get_gainers ==
    /\ Get("get_gainers", "/api/gainers")
    /\ UNCHANGED <<api_key, wsvars>>

get_demo_status ==
    /\ Get("get_demo_status", "/api/demo/status")
    /\ UNCHANGED <<api_key, wsvars>>

\* json.dumps of a dict with one int entry
JsonDumps(key, n) == "{\"" \o key \o "\": " \o ToString(n) \o "}"

start_demo ==
    /\ \E signals_per_minute \in {1, 4}, resp \in Responses :
         Call([name |-> "start_demo", signals_per_minute |-> signals_per_minute], resp,
              Post(api_key, "/api/demo/start",
                   JsonDumps("signalsPerMinute", signals_per_minute), resp))
    /\ UNCHANGED <<api_key, wsvars>>

stop_demo ==
    /\ \E resp \in Responses :
         Call([name |-> "stop_demo"], resp, Post(api_key, "/api/demo/stop", "", resp))
    /\ UNCHANGED <<api_key, wsvars>>

seed_historical ==
    /\ \E count \in {1, 30}, resp \in Responses :
         Call([name |-> "seed_historical", count |-> count], resp,
              Post(api_key, "/api/demo/seed", JsonDumps("count", count), resp))
    /\ UNCHANGED <<api_key, wsvars>>

RestNext ==
    \/ health_check
    \/ get_signals
    \/ get_signal
    \/ get_stats
    \/ get_leaderboard
    \/ get_tiers
    \/ check_subscription
    \/ get_gainers
    \/ get_demo_status
    \/ start_demo
    \/ stop_demo
    \/ seed_historical

\* an OracleClient constructed with any api_key, no call made yet
RestInit ==
    /\ WsInit
    /\ api_key \in ApiKeys
    /\ RestIdle

RestSpec == RestInit /\ [][RestNext]_vars

(* ================================================================== *)
(* The claims                                                          *)
(* ================================================================== *)

\* a new connection attempt begins in this step
AttemptBegins == pc # "connecting" /\ pc' = "connecting"

\* the listen loop takes the frame at the head of the wire in this step
Takes == pc = "listening" /\ wire # <<>> /\ received' = Append(received, Head(wire))

\* frame m is a JSON object whose type is ty
HasType(m, ty) ==
    /\ m.json = "ok"
    /\ m.val.t = "dict"
    /\ "type" \in DOMAIN m.val.v
    /\ m.val.v["type"] = JStr(ty)

\* the payload of a signal frame: its data field, an empty object without one
PayloadOf(m) ==
    IF "data" \in DOMAIN m.val.v THEN m.val.v["data"] ELSE JDict(EmptyDict)

\* C1: once disconnect() has been called (and what was in progress at that
\* moment is over), no new connection attempt is started: no step taken
\* after a disconnect() call begins an attempt.
C1_NoAttemptAfterDisconnect ==
    [][stoppedAt # "none" => ~AttemptBegins]_vars

C3_FixedDelayBeforeRetry ==
    (pc = "connecting" /\ endKind # "none") =>
        /\ gap = (IF endKind \in {"ClosedOK", "ConnectionClosed"} THEN 2 ELSE 5)
        /\ gap >= 2

\* the payloads of the signal frames of a sequence of frames, in order
RECURSIVE SignalPayloads(_)
SignalPayloads(fs) ==
    IF fs = <<>> THEN <<>>
    ELSE IF HasType(Head(fs), "signal")
         THEN <<PayloadOf(Head(fs))>> \o SignalPayloads(Tail(fs))
         ELSE SignalPayloads(Tail(fs))

Ignorable(m) ==
    /\ m.json = "ok"
    /\ m.val.t = "dict"
    /\ ~HasType(m, "signal")
    /\ HasType(m, "history") =>
          ("data" \in DOMAIN m.val.v => m.val.v["data"].t = "list")

\* C5: taking a history frame or a frame of an unrecognized or missing type
\* invokes no handler and raises nothing: the loop stays listening on the
\* same connection, with no delay started.
C5_HistoryAndUnknownAreQuiet ==
    [][(Takes /\ Ignorable(Head(wire))) =>
          /\ pc' = "listening"
          /\ handled' = handled
          /\ wire' = Tail(wire)
          /\ UNCHANGED <<remaining, gap, endKind, running>>
      ]_vars

C5_Witness ==
    /\ pc = "listening"
    /\ received = <<Hist2, Ping, NoType>>
    /\ handled = <<>>
    /\ endKind = "none"

\* C6: unless disconnect() was called, connect() never returns, every
\* closure that raises nothing is followed by a new attempt at once, and
\* every retry delay is eventually followed by a new attempt.
C6_RetriesForever ==
    /\ [](pc = "returned" => stoppedAt # "none")
    /\ [][(stoppedAt = "none" /\ pc = "listening" /\ pc' \notin {"listening", "sleeping"})
             => pc' = "connecting"]_vars
    /\ ((pc = "sleeping" /\ stoppedAt = "none")
           ~> (pc = "connecting" \/ stoppedAt # "none"))

C6_Witness ==
    /\ pc = "connecting"
    /\ endKind = "Exception"
    /\ received = <<>>
    /\ sent = 0
    /\ stoppedAt = "none"

\* C7: with a credential every request carries Authorization: Bearer <token>;
\* without one no request carries an Authorization header.
C7_AuthorizationOnEveryCall ==
    request.method # "none" =>
        /\ (api_key.t = "str" /\ api_key.v # "") =>
              /\ "Authorization" \in DOMAIN request.headers
              /\ request.headers["Authorization"] = "Bearer " \o api_key.v
        /\ api_key.t = "null" => "Authorization" \notin DOMAIN request.headers

\* C8: a non-2xx response to any operation surfaces as the API error with
\* the status code and the reason, after exactly one network call.
C8_ApiErrorForEveryOperation ==
    (lastOp.name # "none" /\ lastResp.status # 0 /\ lastResp.status \notin 200 .. 299) =>
        /\ outcome = Raised("Exception",
                            "API error: " \o ToString(lastResp.status)
                                \o " " \o lastResp.reason)
        /\ netCalls = 1

\* C9: get_signals asks for minScore=<m>&limit=<l> whenever a minimum
\* score m is supplied, 0 included, and for limit=<l> alone only when none is.
C9_SignalsQueryString ==
    lastOp.name = "get_signals" =>
        request.url = BaseUrl \o "/api/signals?" \o
            (IF lastOp.min_score.t = "null"
             THEN "limit=" \o ToString(lastOp.limit)
             ELSE "minScore=" \o ToString(lastOp.min_score.v)
                      \o "&limit=" \o ToString(lastOp.limit))

\* the loop stops listening while it processes the frame it takes
FailsOn(m) ==
    /\ Takes /\ Head(wire) = m
    /\ pc' # "listening"

\* C10: when processing a frame fails (it is no JSON object, or on_signal
\* raises), connect() does not end: the connection is dropped with what was
\* still unread, the loop sleeps 5 time units, and then, if still running,
\* it begins a new attempt.
C10_ProcessingFailureIsRetried ==
    /\ [][\A m \in Frames :
            /\ (Takes /\ Head(wire) = m /\ (m.json # "ok" \/ m.val.t # "dict"))
                   => pc' # "listening"
            /\ FailsOn(m) =>
                   /\ pc' = "sleeping"
                   /\ remaining' = 5
                   /\ wire' = <<>>
                   /\ Len(handled') <= Len(handled) + 1
         ]_vars
    /\ [][(pc = "sleeping" /\ endKind = "Exception" /\ pc' # "sleeping") =>
            /\ gap = 5
            /\ pc' = IF running THEN "connecting" ELSE "returned"
         ]_vars

C10_Witness ==
    /\ pc = "connecting"
    /\ endKind = "Exception"
    /\ gap = 5
    /\ received = <<SigA, Garbage>>
    /\ handled = <<PayloadA>>
    /\ sent = 3

====
